---- MODULE Spec2Model ----
(***************************************************************************)
(* Model of icons/generate_icons.py: the renderer create_icon and the      *)
(* driver main.                                                            *)
(*                                                                         *)
(* An image is the canvas Image.new allocates plus the list of draw calls  *)
(* made on it, in order.  A draw call changes no pixel outside its own     *)
(* bounding box, so the colour of a pixel no call's box contains is the    *)
(* canvas colour.                                                          *)
(*                                                                         *)
(* Two specifications:                                                     *)
(*   Spec        main(), step by step, saving to a disk that may refuse    *)
(*   SpecRender  one call of create_icon on arguments drawn from bounded   *)
(*               sets                                                      *)
(***************************************************************************)
EXTENDS Integers, Sequences, FiniteSets, TLC

VARIABLES pc, i, icon, disk, stdout, saves, renders, env, call, result

vars == <<pc, i, icon, disk, stdout, saves, renders, env, call, result>>

(***************************************************************************)
(* Bounds of the model.                                                    *)
(***************************************************************************)
\* text metrics are enumerated in steps of font_size \div FontGrid pixels
FontGrid == 4
\* the left bearing of the text box is at most MaxBearing steps
MaxBearing == 1

(***************************************************************************)
(* Colours.  Python passes RGB triples; an RGBA canvas stores them with    *)
(* full alpha.                                                             *)
(***************************************************************************)
DefaultBackground == <<66, 133, 244>>
DefaultRobot == <<255, 255, 255>>
OutlineColour == <<50, 50, 50>>

\* the accent taken from the robot colour's default instead
AccentColourWhite == <<255, 255, 255>>

AccentColour == <<66, 133, 244>>

ToRGBA(c) == IF Len(c) = 3 THEN c \o <<255>> ELSE c

Colours == {DefaultBackground, DefaultRobot, <<0, 0, 0>>}

NoColour == <<>>
NoBox == <<>>

(***************************************************************************)
(* The font environment.  ImageFont.truetype("Arial", n) either raises or  *)
(* returns a font; draw.textbbox((0, 0), "CC", font) then reports a box    *)
(* (left, top, right, bottom), right and bottom exclusive.  A font is      *)
(* described by that box in steps of font_size \div FontGrid: two glyphs   *)
(* of at most one em each, at most one em tall, starting at most one em    *)
(* below the origin.                                                       *)
(***************************************************************************)
NoFont == [available |-> FALSE, bx |-> 0, by |-> 0, w |-> 0, h |-> 0]

Fonts ==
  {NoFont} \cup
  [available : {TRUE}, bx : 0..MaxBearing, by : 0..FontGrid,
   w : 1..(2 * FontGrid), h : 1..FontGrid]

textbbox(font, font_size) ==
  LET u == font_size \div FontGrid
  IN <<font.bx * u, font.by * u, (font.bx + font.w) * u, (font.by + font.h) * u>>

(***************************************************************************)
(* Draw calls.                                                             *)
(***************************************************************************)
EllipseOp(xy, fill, outline, width) ==
  [kind |-> "ellipse", xy |-> xy, fill |-> ToRGBA(fill),
   outline |-> IF outline = NoColour THEN NoColour ELSE ToRGBA(outline),
   width |-> width, start |-> 0, end |-> 0, bbox |-> NoBox]

ArcOp(xy, start, end, fill, width) ==
  [kind |-> "arc", xy |-> xy, fill |-> ToRGBA(fill), outline |-> NoColour,
   width |-> width, start |-> start, end |-> end, bbox |-> NoBox]

\* draw.text((x, y), "CC", ...): the glyphs fall in the reported box moved to (x, y)
TextOp(xy, bbox, fill) ==
  [kind |-> "text", xy |-> xy, fill |-> ToRGBA(fill), outline |-> NoColour,
   width |-> 0, start |-> 0, end |-> 0,
   bbox |-> <<xy[1] + bbox[1], xy[2] + bbox[2], xy[1] + bbox[3], xy[2] + bbox[4]>>]

\* the pixels a draw call can change: <<left, top, right, bottom>>, all inclusive
Extent(op) ==
  IF op.kind = "text"
  THEN <<op.bbox[1], op.bbox[2], op.bbox[3] - 1, op.bbox[4] - 1>>
  ELSE op.xy

MayPaint(op, x, y) ==
  LET e == Extent(op)
  IN e[1] <= x /\ x <= e[3] /\ e[2] <= y /\ y <= e[4]

\* the colours pixel (x, y) of the image can hold
PixelColours(image, x, y) ==
  LET hit == {k \in 1..Len(image.ops) : MayPaint(image.ops[k], x, y)}
  IN IF hit = {}
     THEN {image.background}
     ELSE {image.background}
          \cup {image.ops[k].fill : k \in hit}
          \cup {image.ops[k].outline : k \in {j \in hit : image.ops[j].outline # NoColour}}

(***************************************************************************)
(* create_icon                                                             *)
(***************************************************************************)

\* Image.new without its colour argument: a transparent canvas
NewImageUnfilled(size, background_color) ==
  [width |-> size, height |-> size, background |-> <<0, 0, 0, 0>>, ops |-> <<>>]

\* Image.new with a canvas one row short
NewImageShort(size, background_color) ==
  [width |-> size, height |-> size - 1, background |-> ToRGBA(background_color),
   ops |-> <<>>]

NewImage(size, background_color) ==
  [width |-> size, height |-> size, background |-> ToRGBA(background_color),
   ops |-> <<>>]

Draw(image, op) == [image EXCEPT !.ops = Append(@, op)]

margin(size) == size \div 8
head_size(size) == size - 2 * margin(size)

DrawHead(image, size, robot_color) ==
  Draw(image,
       EllipseOp(<<margin(size), margin(size),
                   margin(size) + head_size(size), margin(size) + head_size(size)>>,
                 robot_color, OutlineColour, 1))

eye_size(size) == size \div 8
eye_y(size) == size \div 3
left_eye_x(size) == size \div 2 - size \div 6
right_eye_x(size) == size \div 2 + size \div 6

EyeBox(x, size) ==
  <<x - eye_size(size) \div 2, eye_y(size) - eye_size(size) \div 2,
    x + eye_size(size) \div 2, eye_y(size) + eye_size(size) \div 2>>

DrawEyes(image, size) ==
  Draw(Draw(image, EllipseOp(EyeBox(left_eye_x(size), size), AccentColour, NoColour, 1)),
       EllipseOp(EyeBox(right_eye_x(size), size), AccentColour, NoColour, 1))

mouth_y(size) == size \div 2 + size \div 6
mouth_width(size) == size \div 4

DrawMouth(image, size) ==
  Draw(image,
       ArcOp(<<size \div 2 - mouth_width(size) \div 2, mouth_y(size) - mouth_width(size) \div 4,
               size \div 2 + mouth_width(size) \div 2, mouth_y(size) + mouth_width(size) \div 4>>,
             0, 180, AccentColour, 2))


\* the threshold taken strictly
AttemptsTextStrict(size) == size > 48

AttemptsText(size) == size >= 48

font_size(size) == size \div 4

\* a run of create_icon so far: the image, whether an exception is escaping,
\* and how often the font was looked up and text was drawn
Run(image) == [image |-> image, raised |-> FALSE, font_lookups |-> 0, text_draws |-> 0]

\* the lookup outside any try: its failure escapes create_icon
DrawTextNoCatch(run, size, font) ==
  IF ~font.available
  THEN [run EXCEPT !.font_lookups = @ + 1, !.raised = TRUE]
  ELSE LET text_bbox == textbbox(font, font_size(size))
           text_width == text_bbox[3] - text_bbox[1]
           text_height == text_bbox[4] - text_bbox[2]
           text_x == (size - text_width) \div 2
           text_y == size - text_height - margin(size) \div 2
       IN [run EXCEPT !.font_lookups = @ + 1,
                      !.text_draws = @ + 1,
                      !.image = Draw(@, TextOp(<<text_x, text_y>>, text_bbox, AccentColour))]

\* the try block: a failed lookup raises inside it and the bare except passes
DrawText(run, size, font) ==
  IF ~font.available
  THEN [run EXCEPT !.font_lookups = @ + 1]
  ELSE LET text_bbox == textbbox(font, font_size(size))
           text_width == text_bbox[3] - text_bbox[1]
           text_height == text_bbox[4] - text_bbox[2]
           text_x == (size - text_width) \div 2
           text_y == size - text_height - margin(size) \div 2
       IN [run EXCEPT !.font_lookups = @ + 1,
                      !.text_draws = @ + 1,
                      !.image = Draw(@, TextOp(<<text_x, text_y>>, text_bbox, AccentColour))]

create_icon(size, background_color, robot_color, font) ==
  LET face == Run(DrawMouth(DrawEyes(DrawHead(NewImage(size, background_color),
                                              size, robot_color), size), size))
  IN IF AttemptsText(size) THEN DrawText(face, size, font) ELSE face

(***************************************************************************)
(* main                                                                    *)
(***************************************************************************)
sizes == <<16, 48, 128>>
filenames == <<"icon16.png", "icon48.png", "icon128.png">>


\* the two lists paired out of step
PairsMisaligned ==
  [k \in 1..Len(sizes) |->
     [size |-> sizes[k], filename |-> filenames[(k % Len(filenames)) + 1]]]

\* zip(sizes, filenames)
Pairs == [k \in 1..Len(sizes) |-> [size |-> sizes[k], filename |-> filenames[k]]]

\* the working directory: the three outputs and one file main never names
Files == {filenames[k] : k \in 1..Len(filenames)} \cup {"manifest.json"}

NoImage == [width |-> 0, height |-> 0, background |-> NoColour, ops |-> <<>>]
Absent == [kind |-> "absent", image |-> NoImage]
OldFile == [kind |-> "old", image |-> NoImage]
Partial == [kind |-> "partial", image |-> NoImage]
Png(image) == [kind |-> "png", image |-> image]

CreatingLine(p) ==
  "Creating " \o p.filename \o " (" \o ToString(p.size) \o "x" \o ToString(p.size) \o ")..."
SavedLine(p) == "Saved " \o p.filename
SuccessLine == "All icons generated successfully!"

\* create_icon(size) as main calls it: the default colours
MainIcon(size) == create_icon(size, DefaultBackground, DefaultRobot, env.font)

Init ==
  /\ pc = "loop"
  /\ i = 1
  /\ icon = NoImage
  /\ \E f \in Fonts, old \in SUBSET Files :
       /\ env = [font |-> f, disk0 |-> [n \in Files |-> IF n \in old THEN OldFile ELSE Absent]]
       /\ disk = env.disk0
  /\ stdout = <<>>
  /\ saves = <<>>
  /\ renders = <<>>
  /\ call = <<>>
  /\ result = <<>>

\* line 64
PrintCreating ==
  /\ pc = "loop"
  /\ i <= Len(Pairs)
  /\ stdout' = Append(stdout, CreatingLine(Pairs[i]))
  /\ pc' = "create"
  /\ UNCHANGED <<i, icon, disk, saves, renders, env, call, result>>

\* line 65
Render ==
  /\ pc = "create"
  /\ LET run == MainIcon(Pairs[i].size)
     IN /\ icon' = run.image
        /\ renders' = Append(renders, Pairs[i].size)
        /\ pc' = IF run.raised THEN "raised" ELSE "save"
  /\ UNCHANGED <<i, disk, stdout, saves, env, call, result>>

\* line 66, the save succeeding: the file is created or overwritten
SaveOk ==
  /\ pc = "save"
  /\ disk' = [disk EXCEPT ![Pairs[i].filename] = Png(icon)]
  /\ saves' = Append(saves, [filename |-> Pairs[i].filename, image |-> icon, ok |-> TRUE])
  /\ pc' = "saved"
  /\ UNCHANGED <<i, icon, stdout, renders, env, call, result>>

\* the save wrapped in a handler that carries on
SaveFailCaught ==
  /\ pc = "save"
  /\ \E left \in {disk[Pairs[i].filename], Absent, Partial} :
       disk' = [disk EXCEPT ![Pairs[i].filename] = left]
  /\ saves' = Append(saves, [filename |-> Pairs[i].filename, image |-> icon, ok |-> FALSE])
  /\ pc' = "saved"
  /\ UNCHANGED <<i, icon, stdout, renders, env, call, result>>

\* line 66, the save raising: the file is untouched (it could not be opened),
\* or gone or cut short (the write failed); main has no handler
SaveFail ==
  /\ pc = "save"
  /\ \E left \in {disk[Pairs[i].filename], Absent, Partial} :
       disk' = [disk EXCEPT ![Pairs[i].filename] = left]
  /\ saves' = Append(saves, [filename |-> Pairs[i].filename, image |-> icon, ok |-> FALSE])
  /\ pc' = "raised"
  /\ UNCHANGED <<i, icon, stdout, renders, env, call, result>>

\* line 67, and the loop moving on
PrintSaved ==
  /\ pc = "saved"
  /\ stdout' = Append(stdout, SavedLine(Pairs[i]))
  /\ i' = i + 1
  /\ pc' = "loop"
  /\ UNCHANGED <<icon, disk, saves, renders, env, call, result>>

\* line 69
Finish ==
  /\ pc = "loop"
  /\ i > Len(Pairs)
  /\ stdout' = Append(stdout, SuccessLine)
  /\ pc' = "done"
  /\ UNCHANGED <<i, icon, disk, saves, renders, env, call, result>>

Next == PrintCreating \/ Render \/ SaveOk \/ SaveFail \/ PrintSaved \/ Finish

Spec == Init /\ [][Next]_vars

(***************************************************************************)
(* One call of create_icon on drawn arguments.                             *)
(***************************************************************************)
InitRender ==
  /\ pc = "idle"
  /\ i = 1
  /\ icon = NoImage
  /\ env = [font |-> NoFont, disk0 |-> [n \in Files |-> Absent]]
  /\ disk = env.disk0
  /\ stdout = <<>>
  /\ saves = <<>>
  /\ renders = <<>>
  /\ \E s \in {sizes[k] : k \in 1..Len(sizes)}, bg \in Colours, fg \in Colours, f \in Fonts :
       call = <<[size |-> s, background_color |-> bg, robot_color |-> fg, font |-> f]>>
  /\ result = <<>>

CallCreateIcon ==
  /\ pc = "idle"
  /\ result = <<>>
  /\ result' = <<create_icon(call[1].size, call[1].background_color,
                             call[1].robot_color, call[1].font)>>
  /\ UNCHANGED <<pc, i, icon, disk, stdout, saves, renders, env, call>>

NextRender == CallCreateIcon

SpecRender == InitRender /\ [][NextRender]_vars

(***************************************************************************)
(* Properties.                                                             *)
(***************************************************************************)
SupportedSizes == <<16, 48, 128>>
OutputNames == <<"icon16.png", "icon48.png", "icon128.png">>

Printed(line) == \E k \in 1..Len(stdout) : stdout[k] = line

\* what create_icon(size) returns under the run's font
Expected(k) ==
  create_icon(SupportedSizes[k], <<66, 133, 244>>, <<255, 255, 255>>, env.font).image

\* C1: a run of main in which every save succeeds writes icon16.png, icon48.png
\* and icon128.png, in that order and once each, each the image create_icon
\* returns for 16, 48 and 128; the success line is printed only after the three
\* writes, and every other file is as it was.
C1_MainWritesThreeIconsInOrder ==
  /\ Printed(SuccessLine) => pc = "done"
  /\ (pc = "raised") => (saves # <<>> /\ ~saves[Len(saves)].ok)
  /\ (pc = "done") =>
       /\ Len(saves) = 3
       /\ \A k \in 1..3 :
            /\ saves[k] = [filename |-> OutputNames[k], image |-> Expected(k), ok |-> TRUE]
            /\ saves[k].image.width = SupportedSizes[k]
            /\ disk[OutputNames[k]] = Png(Expected(k))
       /\ renders = SupportedSizes
       /\ \A n \in Files : (\A k \in 1..3 : n # OutputNames[k]) => disk[n] = env.disk0[n]
       /\ stdout[Len(stdout)] = SuccessLine

C1_Witness ==
  /\ pc = "done"
  /\ env.font.available
  /\ env.disk0["icon48.png"] = OldFile
  /\ env.disk0["manifest.json"] = OldFile

\* C2: a save that fails is not caught.  The run ends there with no second
\* attempt, the icons of the earlier iterations are on disk, no later icon is
\* rendered or written, and neither the Saved line of the failed file nor the
\* success line is printed.
C2_SaveFailureEndsRun ==
  /\ (\E k \in 1..Len(saves) : ~saves[k].ok) => pc = "raised"
  /\ (pc = "raised") =>
       LET n == Len(saves)
       IN /\ n \in 1..3
          /\ ~saves[n].ok
          /\ \A k \in 1..n : saves[k].filename = OutputNames[k]
          /\ \A k \in 1..(n - 1) :
               /\ saves[k].ok
               /\ disk[OutputNames[k]] = Png(Expected(k))
          /\ \A k \in (n + 1)..3 : disk[OutputNames[k]] = env.disk0[OutputNames[k]]
          /\ renders = SubSeq(SupportedSizes, 1, n)
          /\ ~Printed("Saved " \o OutputNames[n])
          /\ ~Printed(SuccessLine)
          /\ ~ENABLED Next

C2_Witness ==
  /\ pc = "raised"
  /\ Len(saves) = 2
  /\ disk["icon16.png"].kind = "png"
  /\ env.disk0["icon128.png"] = OldFile

IsNotText(op) == op.kind # "text"

Called == result # <<>>

\* C3: with no font to be found, create_icon for a size of 48 or more still
\* returns an image and raises nothing, and the image is the one drawn with a
\* font less its text: the same canvas, head, eyes and mouth.
C3_FontFailureSwallowed ==
  (Called /\ call[1].size >= 48 /\ ~call[1].font.available) =>
    /\ ~result[1].raised
    /\ Len(result[1].image.ops) = 4
    /\ \A f \in Fonts \ {NoFont} :
         LET full == create_icon(call[1].size, call[1].background_color,
                                 call[1].robot_color, f)
         IN /\ ~full.raised
            /\ Len(full.image.ops) = 5
            /\ full.image.ops[5].kind = "text"
            /\ SelectSeq(full.image.ops, IsNotText) = result[1].image.ops
            /\ [full.image EXCEPT !.ops = result[1].image.ops] = result[1].image

C3_Witness ==
  /\ Called
  /\ call[1].size = 128
  /\ ~call[1].font.available
  /\ result[1].font_lookups = 1
  /\ Len(result[1].image.ops) = 4

InsideCanvas(image, op) ==
  LET e == Extent(op)
  IN /\ 0 <= e[1] /\ e[1] <= e[3] /\ e[3] <= image.width - 1
     /\ 0 <= e[2] /\ e[2] <= e[4] /\ e[4] <= image.height - 1

\* C4: everything create_icon draws (head, eyes, mouth, and the text whatever
\* box the font reports) lies within 0..size-1 on both axes.
C4_AllDrawnInsideCanvas ==
  Called =>
    \A k \in 1..Len(result[1].image.ops) :
      InsideCanvas(result[1].image, result[1].image.ops[k])

Corners(size) == {<<0, 0>>, <<size - 1, 0>>, <<0, size - 1>>, <<size - 1, size - 1>>}

\* C5: the four corner pixels of the returned image hold the background colour,
\* with and without the text.
C5_CornersKeepBackground ==
  Called =>
    \A c \in Corners(call[1].size) :
      PixelColours(result[1].image, c[1], c[2]) = {call[1].background_color \o <<255>>}

C5_Witness ==
  /\ Called
  /\ call[1].size = 128
  /\ call[1].background_color = <<0, 0, 0>>
  /\ result[1].text_draws = 1
  /\ call[1].font.w = 2 * FontGrid
  /\ call[1].font.bx = MaxBearing

\* C6: the font is looked up exactly when size >= 48 (never for 16, always for
\* 48 and 128), and text is drawn only then, when the lookup succeeds.
C6_TextOnlyFrom48 ==
  Called =>
    /\ result[1].font_lookups = (IF call[1].size >= 48 THEN 1 ELSE 0)
    /\ result[1].text_draws =
         (IF call[1].size >= 48 /\ call[1].font.available THEN 1 ELSE 0)
    /\ Len(SelectSeq(result[1].image.ops, IsNotText)) + result[1].text_draws
         = Len(result[1].image.ops)

C6_Witness ==
  /\ Called
  /\ call[1].size = 48
  /\ call[1].font.available
  /\ result[1].font_lookups = 1
  /\ result[1].text_draws = 1

\* C7: the returned image is size wide and size high, with and without a font.
C7_ImageIsSizeSquare ==
  Called =>
    /\ result[1].image.width = call[1].size
    /\ result[1].image.height = call[1].size

C7_Witness ==
  /\ Called
  /\ call[1].size = 48
  /\ ~call[1].font.available
  /\ result[1].image.width = 48

Foreground(k) == result[1].image.ops[k].fill

\* C9 as stated: eyes, mouth and text are drawn in the foreground colour
\* argument (robot_color).
C9_AccentIsForegroundArgument ==
  Called =>
    \A k \in 2..Len(result[1].image.ops) : Foreground(k) = call[1].robot_color \o <<255>>

\* C9 amended: eyes, mouth and text are drawn in the fixed colour (66, 133, 244)
\* whatever the colour arguments; robot_color is the fill of the head only.
C9_AccentIsFixedBlue ==
  Called =>
    /\ \A k \in 2..Len(result[1].image.ops) : Foreground(k) = <<66, 133, 244, 255>>
    /\ Foreground(1) = call[1].robot_color \o <<255>>

C9_Witness ==
  /\ Called
  /\ call[1].robot_color = <<0, 0, 0>>
  /\ call[1].background_color = <<255, 255, 255>>
  /\ Len(result[1].image.ops) = 5

\* C10: the head's box leaves size \div 8 canvas pixels free on the left, on
\* top, on the right and at the bottom.
C10_HeadInsetEqualOnAllSides ==
  Called =>
    LET e == Extent(result[1].image.ops[1])
        inset == call[1].size \div 8
    IN /\ e[1] = inset
       /\ e[2] = inset
       /\ (result[1].image.width - 1) - e[3] = inset
       /\ (result[1].image.height - 1) - e[4] = inset

====
